---- MODULE Spec2Model ----
(***************************************************************************)
(* Performance_Analyzer: the volume-adaptive metrics engine                *)
(* (utils/analyzer.py, class PerformanceAnalyzer) and the application that *)
(* loads datasets and runs the engine over them (utils/UI.py, class        *)
(* PerformanceAnalyzerApp).                                                *)
(*                                                                         *)
(* Number model.  A sample set is a Python list of floats; numpy's         *)
(* statistics depend on the multiset of the samples only, so a sample set  *)
(* is the function  value |-> multiplicity  over Values.  A float in       *)
(* sample units (mean, std, a percentile, an interval bound) is a          *)
(* fixed-point integer in units of 1/Scale, each division and the square   *)
(* root rounding down.  A percentage  cnt / len(data) * 100  is the exact  *)
(* reduced fraction [num, den]: the code compares it with 99 and 99.9, and *)
(* for every len(data) <= 2000 the float comparison agrees with the exact  *)
(* one.                                                                    *)
(***************************************************************************)
EXTENDS Integers, Sequences, FiniteSets, TLC

VARIABLES
    data,            \* the argument of calculate_performance_metrics
    record,          \* the dictionary it returned, NoRecord before the call
    pc,              \* "call" before the engine ran, "done" after
    disk,            \* what reading each file yields: its samples, or an error
    file_datasets,   \* PerformanceAnalyzerApp.file_datasets {filename: data}
    file_metrics,    \* PerformanceAnalyzerApp.file_metrics {filename: metrics}
    current_data,    \* PerformanceAnalyzerApp.current_data
    self_metrics,    \* PerformanceAnalyzerApp.metrics, the pooled record
    status_label,    \* the state shown by PerformanceAnalyzerApp.status_label
    content,         \* the argument of DataLoader._parse_text_format
    parsed,          \* what it returned, once it has returned
    report           \* what generate_analysis_report made of record

engine_vars == <<data, record, pc>>
app_vars == <<disk, file_datasets, file_metrics, current_data, self_metrics,
              status_label>>
parser_vars == <<content, parsed>>
vars == <<data, record, pc, disk, file_datasets, file_metrics, current_data,
          self_metrics, status_label, content, parsed, report>>

(***************************************************************************)
(* Bounds of the model.                                                    *)
(***************************************************************************)
MaxValue == 2        \* samples are the integers 0..MaxValue
MaxSmall == 2        \* every multiplicity 0..MaxSmall is enumerated
NumFiles == 2        \* the files the user can select are 1..NumFiles
Scale    == 100      \* fixed-point resolution: one unit is 1/Scale

Values == 0..MaxValue

(***************************************************************************)
(* PerformanceAnalyzer.__init__                                            *)
(***************************************************************************)
min_data_threshold     == 100
min_sigma_threshold    == 30
min_interval_threshold == 100

(***************************************************************************)
(* Sample sets as multisets.                                               *)
(***************************************************************************)
RECURSIVE CountUpTo(_, _)
\* the number of samples x with x <= v
CountUpTo(d, v) == IF v < 0 THEN 0 ELSE d[v] + CountUpTo(d, v - 1)

\* len(data)
Size(d) == CountUpTo(d, MaxValue)

RECURSIVE SumUpTo(_, _)
SumUpTo(d, v) == IF v < 0 THEN 0 ELSE d[v] * v + SumUpTo(d, v - 1)

\* the k-th element (0-based) of sorted(data)
Sorted(d, k) == CHOOSE v \in Values :
                    /\ CountUpTo(d, v) > k
                    /\ CountUpTo(d, v - 1) <= k

\* list.extend: the concatenation of two sample sets
Extend(d, e) == [v \in Values |-> d[v] + e[v]]

EmptyData == [v \in Values |-> 0]

(***************************************************************************)
(* numpy on a sample set, in fixed point.                                  *)
(***************************************************************************)
Fix(v) == v * Scale

RECURSIVE SqrtIn(_, _, _)
\* the largest r in lo..hi with r * r <= x, by bisection (lo * lo <= x)
SqrtIn(x, lo, hi) ==
    IF lo = hi THEN lo
    ELSE LET mid == (lo + hi + 1) \div 2
         IN  IF mid * mid <= x THEN SqrtIn(x, mid, hi) ELSE SqrtIn(x, lo, mid - 1)

\* np.sqrt, rounded down; a deviation is at most MaxValue
ISqrt(x) == SqrtIn(x, 0, MaxValue * Scale)

NpMean(d) == (SumUpTo(d, MaxValue) * Scale) \div Size(d)

NpMin(d) == Fix(Sorted(d, 0))

NpMax(d) == Fix(Sorted(d, Size(d) - 1))

\* the middle element, or the mean of the two middle elements
NpMedian(d) ==
    LET n == Size(d) IN
    IF n % 2 = 1 THEN Fix(Sorted(d, n \div 2))
    ELSE (Fix(Sorted(d, n \div 2 - 1)) + Fix(Sorted(d, n \div 2))) \div 2

RECURSIVE SqDevUpTo(_, _, _)
\* the sum of (x - mean)^2 over the samples x <= v, in units of 1/Scale^2
SqDevUpTo(d, m, v) ==
    IF v < 0 THEN 0
    ELSE d[v] * (Fix(v) - m) * (Fix(v) - m) + SqDevUpTo(d, m, v - 1)

\* mean(abs(x - x.mean())**2), in units of 1/Scale^2
Var2(d) == SqDevUpTo(d, NpMean(d), MaxValue) \div Size(d)

NpVar(d) == Var2(d) \div Scale

NpStd(d) == ISqrt(Var2(d))

\* np.percentile(data, p), method "linear": the virtual index p/100 * (n-1)
\* interpolated between its two neighbouring order statistics
NpPercentile(d, p) ==
    LET n    == Size(d)
        idx  == p * (n - 1)
        lo   == idx \div 100
        frac == idx % 100
        hi   == IF lo + 1 < n THEN lo + 1 ELSE lo
    IN  Fix(Sorted(d, lo)) + (frac * (Fix(Sorted(d, hi)) - Fix(Sorted(d, lo)))) \div 100

(***************************************************************************)
(* Percentages: exact reduced fractions.                                   *)
(***************************************************************************)
RECURSIVE GCD(_, _)
GCD(a, b) == IF b = 0 THEN a ELSE GCD(b, a % b)

Frac(a, b) == LET g == GCD(a, b) IN [num |-> a \div g, den |-> b \div g]

\* the float literals 0, 99, 99.9 and 100.0
Pct0    == Frac(0, 1)
Pct99   == Frac(99, 1)
Pct99_9 == Frac(999, 10)
Pct100  == Frac(100, 1)

\* p > q
PctGT(p, q) == p.num * q.den > q.num * p.den

\* p >= q
PctGE(p, q) == p.num * q.den >= q.num * p.den

\* p <= q
PctLE(p, q) == ~PctGT(p, q)

\* the samples x with lower <= x <= upper
CountWithin(d, lower, upper) ==
    LET In(v) == lower <= Fix(v) /\ Fix(v) <= upper
        RECURSIVE Upto(_)
        Upto(v) == IF v < 0 THEN 0
                   ELSE (IF In(v) THEN d[v] ELSE 0) + Upto(v - 1)
    IN  Upto(MaxValue)

\* sum(1 for x in data if lower <= x <= upper) / len(data) * 100
Within(d, lower, upper) == Frac(CountWithin(d, lower, upper) * 100, Size(d))

(***************************************************************************)
(* Dictionaries.                                                           *)
(***************************************************************************)
\* d.get(key, default)
Get(m, key, default) == IF key \in DOMAIN m THEN m[key] ELSE default

\* d.update(other): the entries of other win
Update(m, other) == other @@ m

Max2(a, b) == IF a >= b THEN a ELSE b
Min2(a, b) == IF a <= b THEN a ELSE b

\* f'p{p}'
PKey(p) == "p" \o ToString(p)

(***************************************************************************)
(* The labels of the source, in ASCII.                                     *)
(***************************************************************************)
StatusSevere  == "severely insufficient (<5)"   \* '严重不足 (<5)'
StatusLow     == "insufficient (5-9)"           \* '不足 (5-9)'
\* f'数据量不足 ({data_count} < {threshold})'
StatusTooFew(n, threshold) ==
    "not enough data (" \o ToString(n) \o " < " \o ToString(threshold) \o ")"
Method2Sigma     == "2 Sigma interval (near-normal)"      \* "2 Sigma区间 (数据分布接近正态)"
MethodPercentile == "percentile interval (P5-P95)"        \* "百分位区间 (P5-P95)"
Method6Sigma     == "6 Sigma interval (very high quality)" \* "6 Sigma区间 (极高数据质量)"
MethodStrictPct  == "strict percentile interval (P1-P99)" \* "严格百分位区间 (P1-P99)"
QualityExcellent == "excellent"                 \* '优秀'
QualityGood      == "good"                      \* '良好'
QualityFair      == "fair"                      \* '一般'
QualityLow       == "insufficient"              \* '不足'
QualitySevere    == "severely insufficient"     \* '严重不足'
QualityUnknown   == "unknown"                   \* '未知'

(***************************************************************************)
(* PerformanceAnalyzer._assess_data_quality                                *)
(***************************************************************************)
\* _assess_data_quality with the band of 30 open at its lower end (> 30)
_assess_data_quality_Above(data_count) ==
    IF data_count >= 1000 THEN [data_quality |-> QualityExcellent]
    ELSE IF data_count >= 500 THEN [data_quality |-> QualityGood]
    ELSE IF data_count >= 100 THEN [data_quality |-> QualityFair]
    ELSE IF data_count > 30 THEN [data_quality |-> QualityLow]
    ELSE [data_quality |-> QualitySevere]

_assess_data_quality(data_count) ==
    IF data_count >= 1000 THEN [data_quality |-> QualityExcellent]
    ELSE IF data_count >= 500 THEN [data_quality |-> QualityGood]
    ELSE IF data_count >= 100 THEN [data_quality |-> QualityFair]
    ELSE IF data_count >= 30 THEN [data_quality |-> QualityLow]
    ELSE [data_quality |-> QualitySevere]

(***************************************************************************)
(* PerformanceAnalyzer._calculate_sigma_levels                             *)
(***************************************************************************)
\* _calculate_sigma_levels with the containments of the 2-sigma and the
\* 3-sigma range exchanged
_calculate_sigma_levels_Swapped(d, mean, std) ==
    IF std = 0 THEN
        [sigma_2_lower |-> mean, sigma_2_upper |-> mean,
         sigma_3_lower |-> mean, sigma_3_upper |-> mean,
         sigma_6_lower |-> mean, sigma_6_upper |-> mean,
         within_2sigma |-> Pct100, within_3sigma |-> Pct100,
         within_6sigma |-> Pct100]
    ELSE
        [sigma_2_lower |-> mean - 2 * std, sigma_2_upper |-> mean + 2 * std,
         sigma_3_lower |-> mean - 3 * std, sigma_3_upper |-> mean + 3 * std,
         sigma_6_lower |-> mean - 6 * std, sigma_6_upper |-> mean + 6 * std,
         within_2sigma |-> Within(d, mean - 3 * std, mean + 3 * std),
         within_3sigma |-> Within(d, mean - 2 * std, mean + 2 * std),
         within_6sigma |-> Within(d, mean - 6 * std, mean + 6 * std)]

\* _calculate_sigma_levels with the degenerate ranges collapsed onto std
\* instead of mean
_calculate_sigma_levels_OntoStd(d, mean, std) ==
    IF std = 0 THEN
        [sigma_2_lower |-> std, sigma_2_upper |-> std,
         sigma_3_lower |-> std, sigma_3_upper |-> std,
         sigma_6_lower |-> std, sigma_6_upper |-> std,
         within_2sigma |-> Pct100, within_3sigma |-> Pct100,
         within_6sigma |-> Pct100]
    ELSE
        [sigma_2_lower |-> mean - 2 * std, sigma_2_upper |-> mean + 2 * std,
         sigma_3_lower |-> mean - 3 * std, sigma_3_upper |-> mean + 3 * std,
         sigma_6_lower |-> mean - 6 * std, sigma_6_upper |-> mean + 6 * std,
         within_2sigma |-> Within(d, mean - 2 * std, mean + 2 * std),
         within_3sigma |-> Within(d, mean - 3 * std, mean + 3 * std),
         within_6sigma |-> Within(d, mean - 6 * std, mean + 6 * std)]

\* _calculate_sigma_levels with the factors 3 and 6 exchanged in the bounds
_calculate_sigma_levels_Exchanged(d, mean, std) ==
    IF std = 0 THEN
        [sigma_2_lower |-> mean, sigma_2_upper |-> mean,
         sigma_3_lower |-> mean, sigma_3_upper |-> mean,
         sigma_6_lower |-> mean, sigma_6_upper |-> mean,
         within_2sigma |-> Pct100, within_3sigma |-> Pct100,
         within_6sigma |-> Pct100]
    ELSE
        [sigma_2_lower |-> mean - 2 * std, sigma_2_upper |-> mean + 2 * std,
         sigma_3_lower |-> mean - 6 * std, sigma_3_upper |-> mean + 6 * std,
         sigma_6_lower |-> mean - 3 * std, sigma_6_upper |-> mean + 3 * std,
         within_2sigma |-> Within(d, mean - 2 * std, mean + 2 * std),
         within_3sigma |-> Within(d, mean - 3 * std, mean + 3 * std),
         within_6sigma |-> Within(d, mean - 6 * std, mean + 6 * std)]

_calculate_sigma_levels(d, mean, std) ==
    IF std = 0 THEN
        [sigma_2_lower |-> mean, sigma_2_upper |-> mean,
         sigma_3_lower |-> mean, sigma_3_upper |-> mean,
         sigma_6_lower |-> mean, sigma_6_upper |-> mean,
         within_2sigma |-> Pct100, within_3sigma |-> Pct100,
         within_6sigma |-> Pct100]
    ELSE
        LET sigma_2_lower == mean - 2 * std
            sigma_2_upper == mean + 2 * std
            sigma_3_lower == mean - 3 * std
            sigma_3_upper == mean + 3 * std
            sigma_6_lower == mean - 6 * std
            sigma_6_upper == mean + 6 * std
        IN  [sigma_2_lower |-> sigma_2_lower, sigma_2_upper |-> sigma_2_upper,
             sigma_3_lower |-> sigma_3_lower, sigma_3_upper |-> sigma_3_upper,
             sigma_6_lower |-> sigma_6_lower, sigma_6_upper |-> sigma_6_upper,
             within_2sigma |-> Within(d, sigma_2_lower, sigma_2_upper),
             within_3sigma |-> Within(d, sigma_3_lower, sigma_3_upper),
             within_6sigma |-> Within(d, sigma_6_lower, sigma_6_upper)]

(***************************************************************************)
(* PerformanceAnalyzer._calculate_comprehensive_interval                   *)
(***************************************************************************)
\* RecommendedChoice with the threshold met at equality (>= 99)
RecommendedChoice_AtLeast(metrics, sigma_2_lower, sigma_2_upper, p5, p95) ==
    IF PctGE(Get(metrics, "within_3sigma", Pct0), Pct99)
    THEN [lower |-> sigma_2_lower, upper |-> sigma_2_upper, method |-> Method2Sigma]
    ELSE [lower |-> p5, upper |-> p95, method |-> MethodPercentile]

\* the recommended interval before clamping, with its method label
RecommendedChoice(metrics, sigma_2_lower, sigma_2_upper, p5, p95) ==
    IF PctGT(Get(metrics, "within_3sigma", Pct0), Pct99)
    THEN [lower |-> sigma_2_lower, upper |-> sigma_2_upper, method |-> Method2Sigma]
    ELSE [lower |-> p5, upper |-> p95, method |-> MethodPercentile]

\* StrictChoice with the threshold met at equality (>= 99.9)
StrictChoice_AtLeast(metrics, sigma_3_lower, sigma_3_upper, p1, p99) ==
    IF PctGE(Get(metrics, "within_6sigma", Pct0), Pct99_9)
    THEN [lower |-> Get(metrics, "sigma_6_lower", sigma_3_lower),
          upper |-> Get(metrics, "sigma_6_upper", sigma_3_upper),
          method |-> Method6Sigma]
    ELSE [lower |-> p1, upper |-> p99, method |-> MethodStrictPct]

\* the strict interval before clamping, with its method label
StrictChoice(metrics, sigma_3_lower, sigma_3_upper, p1, p99) ==
    IF PctGT(Get(metrics, "within_6sigma", Pct0), Pct99_9)
    THEN [lower |-> Get(metrics, "sigma_6_lower", sigma_3_lower),
          upper |-> Get(metrics, "sigma_6_upper", sigma_3_upper),
          method |-> Method6Sigma]
    ELSE [lower |-> p1, upper |-> p99, method |-> MethodStrictPct]

\* ClampLower without the clamp
ClampLower_None(lower, d) == lower

\* max(lower, np.min(data))
ClampLower(lower, d) == Max2(lower, NpMin(d))

\* ClampUpper cutting at the minimum of the data
ClampUpper_AtMin(upper, d) == Min2(upper, NpMin(d))

\* min(upper, np.max(data))
ClampUpper(upper, d) == Min2(upper, NpMax(d))

\* _calculate_comprehensive_interval reporting the containment of the 2-sigma
\* and the 6-sigma range instead of that of the two final intervals
_calculate_comprehensive_interval_SigmaContainment(d, metrics) ==
    LET mean == metrics["mean"]
        std  == metrics["std"]
        p1   == Get(metrics, "p1", NpPercentile(d, 1))
        p5   == Get(metrics, "p5", NpPercentile(d, 5))
        p95  == Get(metrics, "p95", NpPercentile(d, 95))
        p99  == Get(metrics, "p99", NpPercentile(d, 99))
        sigma_2_lower == Max2(mean - 2 * std, NpMin(d))
        sigma_2_upper == Min2(mean + 2 * std, NpMax(d))
        sigma_3_lower == Max2(mean - 3 * std, NpMin(d))
        sigma_3_upper == Min2(mean + 3 * std, NpMax(d))
        rec    == RecommendedChoice(metrics, sigma_2_lower, sigma_2_upper, p5, p95)
        strict == StrictChoice(metrics, sigma_3_lower, sigma_3_upper, p1, p99)
        recommended_lower == ClampLower(rec.lower, d)
        recommended_upper == ClampUpper(rec.upper, d)
        strict_lower == ClampLower(strict.lower, d)
        strict_upper == ClampUpper(strict.upper, d)
    IN  [sigma_2_lower |-> sigma_2_lower, sigma_2_upper |-> sigma_2_upper,
         sigma_3_lower |-> sigma_3_lower, sigma_3_upper |-> sigma_3_upper,
         sigma_6_lower |-> Get(metrics, "sigma_6_lower", sigma_3_lower),
         sigma_6_upper |-> Get(metrics, "sigma_6_upper", sigma_3_upper),
         percentile_based_lower |-> p5, percentile_based_upper |-> p95,
         strict_percentile_lower |-> p1, strict_percentile_upper |-> p99,
         recommended_lower |-> recommended_lower,
         recommended_upper |-> recommended_upper,
         strict_lower |-> strict_lower, strict_upper |-> strict_upper,
         within_recommended |-> Get(metrics, "within_2sigma", Pct0),
         within_strict |-> Get(metrics, "within_6sigma", Pct0),
         interval_method |-> rec.method, strict_method |-> strict.method]

_calculate_comprehensive_interval(d, metrics) ==
    LET mean == metrics["mean"]
        std  == metrics["std"]
        p1   == Get(metrics, "p1", NpPercentile(d, 1))
        p5   == Get(metrics, "p5", NpPercentile(d, 5))
        p95  == Get(metrics, "p95", NpPercentile(d, 95))
        p99  == Get(metrics, "p99", NpPercentile(d, 99))
        sigma_2_lower == Max2(mean - 2 * std, NpMin(d))
        sigma_2_upper == Min2(mean + 2 * std, NpMax(d))
        sigma_3_lower == Max2(mean - 3 * std, NpMin(d))
        sigma_3_upper == Min2(mean + 3 * std, NpMax(d))
        rec    == RecommendedChoice(metrics, sigma_2_lower, sigma_2_upper, p5, p95)
        strict == StrictChoice(metrics, sigma_3_lower, sigma_3_upper, p1, p99)
        recommended_lower == ClampLower(rec.lower, d)
        recommended_upper == ClampUpper(rec.upper, d)
        strict_lower == ClampLower(strict.lower, d)
        strict_upper == ClampUpper(strict.upper, d)
    IN  [sigma_2_lower |-> sigma_2_lower, sigma_2_upper |-> sigma_2_upper,
         sigma_3_lower |-> sigma_3_lower, sigma_3_upper |-> sigma_3_upper,
         sigma_6_lower |-> Get(metrics, "sigma_6_lower", sigma_3_lower),
         sigma_6_upper |-> Get(metrics, "sigma_6_upper", sigma_3_upper),
         percentile_based_lower |-> p5, percentile_based_upper |-> p95,
         strict_percentile_lower |-> p1, strict_percentile_upper |-> p99,
         recommended_lower |-> recommended_lower,
         recommended_upper |-> recommended_upper,
         strict_lower |-> strict_lower, strict_upper |-> strict_upper,
         within_recommended |-> Within(d, recommended_lower, recommended_upper),
         within_strict |-> Within(d, strict_lower, strict_upper),
         interval_method |-> rec.method, strict_method |-> strict.method]

(***************************************************************************)
(* PerformanceAnalyzer.calculate_performance_metrics                       *)
(***************************************************************************)
\* Percentiles with the tiers open at their lower end (> 50, > 20)
Percentiles_Above(data_count) ==
    IF data_count > 50 THEN <<1, 5, 10, 25, 50, 75, 90, 95, 99>>
    ELSE IF data_count > 20 THEN <<5, 25, 50, 75, 95>>
    ELSE <<5, 50, 95>>

\* the percentile list of the count tier
Percentiles(data_count) ==
    IF data_count >= 50 THEN <<1, 5, 10, 25, 50, 75, 90, 95, 99>>
    ELSE IF data_count >= 20 THEN <<5, 25, 50, 75, 95>>
    ELSE <<5, 50, 95>>

RECURSIVE PercentileMetrics(_, _, _)
\* for p in percentiles: metrics[f'p{p}'] = np.percentile(data, p)
PercentileMetrics(d, percentiles, metrics) ==
    IF percentiles = <<>> THEN metrics
    ELSE PercentileMetrics(d, Tail(percentiles),
             Update(metrics, PKey(Head(percentiles)) :> NpPercentile(d, Head(percentiles))))

\* count, mean, median, min, max: always computed
BasicMetrics(d) ==
    [count |-> Size(d), mean |-> NpMean(d), median |-> NpMedian(d),
     min |-> NpMin(d), max |-> NpMax(d)]

\* SigmaStage with the gate open only above the threshold (> 30)
SigmaStage_Above(d, metrics) ==
    IF metrics["count"] > min_sigma_threshold
    THEN Update(metrics, _calculate_sigma_levels(d, metrics["mean"], metrics["std"]))
    ELSE Update(metrics,
            [sigma_status |-> StatusTooFew(metrics["count"], min_sigma_threshold)])

\* the record after the sigma gate
SigmaStage(d, metrics) ==
    IF metrics["count"] >= min_sigma_threshold
    THEN Update(metrics, _calculate_sigma_levels(d, metrics["mean"], metrics["std"]))
    ELSE Update(metrics,
            [sigma_status |-> StatusTooFew(metrics["count"], min_sigma_threshold)])

\* IntervalStage assigning the interval metrics instead of merging them
IntervalStage_Assign(d, metrics) ==
    IF metrics["count"] >= min_interval_threshold
    THEN _calculate_comprehensive_interval(d, metrics)
    ELSE Update(metrics,
            [interval_status |-> StatusTooFew(metrics["count"], min_interval_threshold)])

\* the record after the interval gate
IntervalStage(d, metrics) ==
    IF metrics["count"] >= min_interval_threshold
    THEN Update(metrics, _calculate_comprehensive_interval(d, metrics))
    ELSE Update(metrics,
            [interval_status |-> StatusTooFew(metrics["count"], min_interval_threshold)])

\* std, variance and the percentiles (data_count >= 10)
ExtendedStage(d, metrics) ==
    PercentileMetrics(d, Percentiles(metrics["count"]),
        Update(metrics, [std |-> NpStd(d), variance |-> NpVar(d)]))

\* InsufficientRecord with the severe band closed at 5 (<= 5)
InsufficientRecord_UpTo5(metrics, data_count) ==
    IF data_count <= 5
    THEN Update(metrics, [insufficient_data |-> TRUE, data_status |-> StatusSevere])
    ELSE Update(metrics, [insufficient_data |-> TRUE, data_status |-> StatusLow])

\* the early returns of the data-volume check
InsufficientRecord(metrics, data_count) ==
    IF data_count < 5
    THEN Update(metrics, [insufficient_data |-> TRUE, data_status |-> StatusSevere])
    ELSE Update(metrics, [insufficient_data |-> TRUE, data_status |-> StatusLow])

\* EmptyRecord without the flag
EmptyRecord_CountOnly == [count |-> 0]

\* the record of an empty sample set
EmptyRecord == [count |-> 0, insufficient_data |-> TRUE]

\* QualityStage left out
QualityStage_Skipped(metrics, data_count) == metrics

\* metrics.update(self._assess_data_quality(data_count))
QualityStage(metrics, data_count) == Update(metrics, _assess_data_quality(data_count))

calculate_performance_metrics(d) ==
    IF Size(d) = 0 THEN EmptyRecord
    ELSE LET data_count == Size(d)
             metrics    == BasicMetrics(d)
         IN  IF data_count < 10 THEN InsufficientRecord(metrics, data_count)
             ELSE QualityStage(
                      IntervalStage(d, SigmaStage(d, ExtendedStage(d, metrics))),
                      data_count)

(***************************************************************************)
(* The engine as a function of its argument: every sample set over Values  *)
(* in which each value occurs a small number of times or one time fewer    *)
(* than a count gate of the engine, so that the counts on both sides of    *)
(* every gate occur (gate - 1, and gate - 1 plus one more sample).         *)
(***************************************************************************)
\* the counts the engine, the classifier and the advisory branch on
Gates == {5, 10, 20, 30, 50, 100, 500, 1000}

Multiplicities == (0..MaxSmall) \cup {g - 1 : g \in Gates}

SampleSets == [Values -> Multiplicities]

NoRecord == [none |-> TRUE]

(***************************************************************************)
(* PerformanceAnalyzer.generate_analysis_report and its advisory.  A       *)
(* report is the sequence of the sections appended to result.              *)
(***************************************************************************)
AdviceStop      == "[alert] stop the analysis"        \* "[警报] 立即停止分析，数据量严重不足"
AdviceBasicOnly == "[warning] basic analysis only"    \* "[警告] 数据量不足，只能进行基础分析"
AdviceSigma     == "[info] sigma analysis available"  \* "[信息] 数据量一般，可进行西格玛分析"
AdviceComplete  == "[OK] complete analysis"           \* "[OK] 数据量足够进行完整分析"
AdviceReliable  == "[excellent] reliable analysis"    \* "[优秀] 数据量充足，分析结果可靠"

\* _generate_data_collection_advice with the first band closed at 10 (<= 10)
_generate_data_collection_advice_UpTo10(data_count) ==
    IF data_count <= 10 THEN AdviceStop
    ELSE IF data_count < 30 THEN AdviceBasicOnly
    ELSE IF data_count < 100 THEN AdviceSigma
    ELSE IF data_count < 500 THEN AdviceComplete
    ELSE AdviceReliable

_generate_data_collection_advice(data_count) ==
    IF data_count < 10 THEN AdviceStop
    ELSE IF data_count < 30 THEN AdviceBasicOnly
    ELSE IF data_count < 100 THEN AdviceSigma
    ELSE IF data_count < 500 THEN AdviceComplete
    ELSE AdviceReliable

\* the sections of a report
SectionHeader         == "header"                 \* title and sample count
SectionSevereWarning  == "severe warning"         \* "数据量严重不足警告:"
SectionBasicReference == "basic (reference only)" \* "基础统计 (仅供参考):"
SectionLimited        == "limited notice"         \* "数据量较少，部分分析受限"
SectionBasic          == "basic"                  \* "基础统计:"
SectionSpread         == "std and variance"
SectionPercentiles    == "percentiles"            \* "百分位数:"
SectionSigma          == "sigma analysis"         \* _generate_sigma_analysis
SectionSigmaStatus    == "sigma status"
SectionInterval       == "interval analysis"      \* _generate_interval_analysis
SectionIntervalStatus == "interval status"
SectionNoSpread       == "no std and percentiles" \* "数据量不足，无法计算标准差和百分位数"

\* the keys generate_analysis_report reads without a guard
ReportReads(m) ==
    {"count"}
    \cup (IF Get(m, "insufficient_data", FALSE) /\ m["count"] < 10
          THEN {"mean", "median", "min", "max"}
          ELSE {"mean", "median", "min", "max"}
               \cup (IF "std" \in DOMAIN m
                     THEN {"std", "variance", "p50", "p95"} ELSE {}))

\* the sections after the basic statistics, up to the advisory
ReportTail(metrics) ==
    IF "std" \in DOMAIN metrics
    THEN <<SectionSpread, SectionPercentiles>>
         \o (IF "sigma_3_lower" \in DOMAIN metrics THEN <<SectionSigma>>
             ELSE IF "sigma_status" \in DOMAIN metrics THEN <<SectionSigmaStatus>>
             ELSE <<>>)
         \o (IF "recommended_lower" \in DOMAIN metrics THEN <<SectionInterval>>
             ELSE IF "interval_status" \in DOMAIN metrics THEN <<SectionIntervalStatus>>
             ELSE <<>>)
    ELSE <<SectionNoSpread>>

\* generate_analysis_report returning after the basic statistics for fewer
\* than 5 samples only
generate_analysis_report_Below5(metrics) ==
    IF ~(ReportReads(metrics) \subseteq DOMAIN metrics)
    THEN [raises |-> TRUE, result |-> <<>>]
    ELSE IF Get(metrics, "insufficient_data", FALSE) /\ metrics["count"] < 5
    THEN [raises |-> FALSE,
          result |-> <<SectionHeader, SectionSevereWarning, SectionBasicReference>>]
    ELSE [raises |-> FALSE,
          result |-> <<SectionHeader>>
                     \o (IF Get(metrics, "insufficient_data", FALSE)
                         THEN <<SectionLimited>> ELSE <<>>)
                     \o <<SectionBasic>>
                     \o ReportTail(metrics)
                     \o <<_generate_data_collection_advice(metrics["count"])>>]

\* the report, or the KeyError of a key read without a guard
generate_analysis_report(metrics) ==
    IF ~(ReportReads(metrics) \subseteq DOMAIN metrics)
    THEN [raises |-> TRUE, result |-> <<>>]
    ELSE IF Get(metrics, "insufficient_data", FALSE) /\ metrics["count"] < 10
    THEN [raises |-> FALSE,
          result |-> <<SectionHeader, SectionSevereWarning, SectionBasicReference>>]
    ELSE [raises |-> FALSE,
          result |-> <<SectionHeader>>
                     \o (IF Get(metrics, "insufficient_data", FALSE)
                         THEN <<SectionLimited>> ELSE <<>>)
                     \o <<SectionBasic>>
                     \o ReportTail(metrics)
                     \o <<_generate_data_collection_advice(metrics["count"])>>]

NoReport == [raises |-> FALSE, result |-> <<>>]

(***************************************************************************)
(* DataLoader._parse_text_format (utils/data_loader.py).  A file content   *)
(* is the sequence of its lines, content.strip().split('\n'), and a line   *)
(* the sequence of its whitespace-separated parts, line.split(); a float   *)
(* is a finite number, nan, or an infinity with a sign.                    *)
(***************************************************************************)
MaxLines == 2        \* a content has at most MaxLines lines
MaxParts == 2        \* a line has at most MaxParts parts

\* the parts a line is made of: finite literals, the spellings of nan and
\* infinity float() accepts, a literal beyond the double range, and a word
Tokens == {"1", "2", "nan", "inf", "-inf", "1e999", "abc"}

Finite(v)   == [kind |-> "finite", value |-> v]
NaN         == [kind |-> "nan", value |-> 0]
Infinity(s) == [kind |-> "inf", value |-> s]

\* float(token): the value, or ValueError
Float(token) ==
    CASE token = "1"     -> [raises |-> FALSE, value |-> Finite(1)]
      [] token = "2"     -> [raises |-> FALSE, value |-> Finite(2)]
      [] token = "nan"   -> [raises |-> FALSE, value |-> NaN]
      [] token = "inf"   -> [raises |-> FALSE, value |-> Infinity(1)]
      [] token = "-inf"  -> [raises |-> FALSE, value |-> Infinity(-1)]
      [] token = "1e999" -> [raises |-> FALSE, value |-> Infinity(1)]
      [] OTHER           -> [raises |-> TRUE, value |-> NaN]

\* float(line): a line of several parts is no float literal
FloatOfLine(line) ==
    IF Len(line) = 1 THEN Float(line[1]) ELSE [raises |-> TRUE, value |-> NaN]

RECURSIVE ParseParts(_)
\* for part in parts: append float(part), or continue on ValueError
ParseParts(parts) ==
    IF parts = <<>> THEN <<>>
    ELSE LET first == Float(Head(parts))
         IN  (IF first.raises THEN <<>> ELSE <<first.value>>) \o ParseParts(Tail(parts))

\* the values one line appends to data
ParseLine(line) ==
    IF line = <<>> THEN <<>>
    ELSE IF ~FloatOfLine(line).raises THEN <<FloatOfLine(line).value>>
    ELSE ParseParts(line)

RECURSIVE _parse_text_format(_)
_parse_text_format(lines) ==
    IF lines = <<>> THEN <<>>
    ELSE ParseLine(Head(lines)) \o _parse_text_format(Tail(lines))

\* the lines and the contents the parser is run on
Lines == UNION {[1..n -> Tokens] : n \in 0..MaxParts}

Contents == UNION {[1..n -> Lines] : n \in 1..MaxLines}

NotParsed == [returned |-> FALSE, data |-> <<>>]

(***************************************************************************)
(* The application: PerformanceAnalyzerApp (utils/UI.py).                  *)
(***************************************************************************)
Files == 1..NumFiles

\* a dictionary with no entry
EmptyDict == [f \in {} |-> EmptyData]

\* a sample set with a zeros, b ones and c twos
Samples(a, b, c) ==
    [v \in Values |-> IF v = 0 THEN a ELSE IF v = 1 THEN b ELSE IF v = 2 THEN c ELSE 0]

\* the contents a readable file can have: no sample at all, or a sample set
\* of the tier SEVERE (3), BASIC (12), SIGMA_ELIGIBLE (40) or FULL (150)
FileSamples == {EmptyData, Samples(1, 1, 1), Samples(2, 6, 4),
                Samples(10, 20, 10), Samples(50, 60, 40)}

\* what DataLoader does with a file: it raises (the file cannot be opened or
\* decoded, or it is an Excel file: DataLoader has no load_excel_file), or it
\* returns the samples parsed from it
Outcomes == {[raises |-> TRUE, data |-> EmptyData]}
                \cup {[raises |-> FALSE, data |-> d] : d \in FileSamples}

\* the tuples askopenfilenames can return: distinct files in any order
Selections ==
    {fs \in UNION {[1..n -> Files] : n \in 1..NumFiles} :
        \A i, j \in DOMAIN fs : i # j => fs[i] # fs[j]}

RECURSIVE LoadLoop(_, _, _, _)
\* the loop of load_file over the selected files: a file that raises ends
\* the loop and the handler; a file without samples is skipped
LoadLoop(dsk, filenames, datasets, all_data) ==
    IF filenames = <<>>
    THEN [raised |-> FALSE, file_datasets |-> datasets, all_data |-> all_data]
    ELSE LET filename == Head(filenames)
             read     == dsk[filename]
         IN  IF read.raises
             THEN [raised |-> TRUE, file_datasets |-> datasets, all_data |-> all_data]
             ELSE IF Size(read.data) > 0
             THEN LoadLoop(dsk, Tail(filenames),
                           (filename :> read.data) @@ datasets,
                           Extend(all_data, read.data))
             ELSE LoadLoop(dsk, Tail(filenames), datasets, all_data)

RECURSIVE ConcatOver(_, _)
\* all_data.extend(data) for the data of the files in S
ConcatOver(datasets, S) ==
    IF S = {} THEN EmptyData
    ELSE LET f == CHOOSE g \in S : TRUE
         IN  Extend(datasets[f], ConcatOver(datasets, S \ {f}))

\* Pooled taking the sample set of one file only
Pooled_OneFile(datasets) == datasets[CHOOSE f \in DOMAIN datasets : TRUE]

\* the sample sets of all files, concatenated
Pooled(datasets) == ConcatOver(datasets, DOMAIN datasets)

\* metrics.get('data_quality', '未知')
QualityOf(m) == Get(m, "data_quality", QualityUnknown)

\* quality_counts counting only the records that hold a data_quality
quality_counts_Present(fmetrics) ==
    [q \in {fmetrics[f]["data_quality"] :
                f \in {g \in DOMAIN fmetrics : "data_quality" \in DOMAIN fmetrics[g]}} |->
        Cardinality({f \in DOMAIN fmetrics : QualityOf(fmetrics[f]) = q})]

\* generate_comparison_report: the number of files per quality label
quality_counts(fmetrics) ==
    [q \in {QualityOf(fmetrics[f]) : f \in DOMAIN fmetrics} |->
        Cardinality({f \in DOMAIN fmetrics : QualityOf(fmetrics[f]) = q})]

\* display_results raises a KeyError
DisplayRaises(datasets, fmetrics) ==
    \E f \in DOMAIN fmetrics : ~(ReportReads(fmetrics[f]) \subseteq DOMAIN fmetrics[f])

\* ChartRenderer.plot_histogram raises: with several files the bin count
\* min(25, len(all_data) // 15) is 0 below 15 samples
HistogramRaises(datasets, fmetrics) ==
    IF Cardinality(DOMAIN datasets) > 1
    THEN Min2(25, Size(Pooled(datasets)) \div 15) < 1
    ELSE LET m == fmetrics[CHOOSE f \in DOMAIN datasets : TRUE]
         IN  /\ "insufficient_data" \notin DOMAIN m
             /\ ~({"mean", "p50", "p95"} \subseteq DOMAIN m)

\* ChartRenderer.plot_boxplot raises: with one file it reads mean, p50 and p95
BoxplotRaises(datasets, fmetrics) ==
    /\ Cardinality(DOMAIN datasets) = 1
    /\ LET m == fmetrics[CHOOSE f \in DOMAIN datasets : TRUE]
       IN  ~({"mean", "p50", "p95"} \subseteq DOMAIN m)

\* plot_charts raises (plot_line_chart reads no record)
PlotRaises(datasets, fmetrics) ==
    HistogramRaises(datasets, fmetrics) \/ BoxplotRaises(datasets, fmetrics)

\* analyze_data on a non-empty file_datasets: the per-file records, the
\* pooled data and its record; the status stays at "analysing" when
\* display_results or plot_charts raises
Analysis(datasets) ==
    LET fmetrics == [f \in DOMAIN datasets |->
                        calculate_performance_metrics(datasets[f])]
    IN  [file_metrics |-> fmetrics,
         current_data |-> Pooled(datasets),
         metrics      |-> calculate_performance_metrics(Pooled(datasets)),
         status_label |-> IF DisplayRaises(datasets, fmetrics)
                             \/ PlotRaises(datasets, fmetrics)
                          THEN "analysing" ELSE "complete"]

\* PerformanceAnalyzerApp.__init__
Init ==
    /\ disk \in [Files -> Outcomes]
    /\ file_datasets = EmptyDict
    /\ file_metrics = EmptyDict
    /\ current_data = EmptyData
    /\ self_metrics = EmptyDict
    /\ status_label = "ready"
    /\ data = EmptyData
    /\ record = NoRecord
    /\ pc = "call"
    /\ content = <<>>
    /\ parsed = NotParsed
    /\ report = NoReport

\* PerformanceAnalyzerApp.load_file with the selection filenames
LoadFile(filenames) ==
    LET loaded == LoadLoop(disk, filenames, EmptyDict, EmptyData)
    IN  /\ file_datasets' = loaded.file_datasets
        /\ IF loaded.raised
           THEN \* showerror, return
                UNCHANGED <<file_metrics, current_data, self_metrics, status_label>>
           ELSE IF DOMAIN loaded.file_datasets # {}
           THEN LET a == Analysis(loaded.file_datasets)
                IN  /\ file_metrics' = a.file_metrics
                    /\ current_data' = a.current_data
                    /\ self_metrics' = a.metrics
                    /\ status_label' = a.status_label
           ELSE \* showwarning: no file was loaded
                UNCHANGED <<file_metrics, current_data, self_metrics, status_label>>
        /\ UNCHANGED <<disk, data, record, pc, content, parsed, report>>

\* load_file with a non-empty selection (a cancelled dialog changes nothing)
load_file == \E filenames \in Selections : LoadFile(filenames)

\* PerformanceAnalyzerApp.analyze_data, from the button
analyze_data ==
    /\ IF DOMAIN file_datasets = {}
       THEN /\ status_label' = "no data"
            /\ UNCHANGED <<file_metrics, current_data, self_metrics>>
       ELSE LET a == Analysis(file_datasets)
            IN  /\ file_metrics' = a.file_metrics
                /\ current_data' = a.current_data
                /\ self_metrics' = a.metrics
                /\ status_label' = a.status_label
    /\ UNCHANGED <<disk, file_datasets, data, record, pc, content, parsed, report>>

\* PerformanceAnalyzerApp.clear_data
clear_data ==
    /\ file_datasets' = EmptyDict
    /\ file_metrics' = EmptyDict
    /\ current_data' = EmptyData
    /\ self_metrics' = EmptyDict
    /\ status_label' = "cleared"
    /\ UNCHANGED <<disk, data, record, pc, content, parsed, report>>

Next == load_file \/ analyze_data \/ clear_data

Spec == Init /\ [][Next]_vars

(***************************************************************************)
(* The engine alone, as a function of its argument.                        *)
(***************************************************************************)
InitEngine ==
    /\ data \in SampleSets
    /\ record = NoRecord
    /\ pc = "call"
    /\ disk = [f \in Files |-> [raises |-> TRUE, data |-> EmptyData]]
    /\ file_datasets = EmptyDict
    /\ file_metrics = EmptyDict
    /\ current_data = EmptyData
    /\ self_metrics = EmptyDict
    /\ status_label = "ready"
    /\ content = <<>>
    /\ parsed = NotParsed
    /\ report = NoReport

\* record := calculate_performance_metrics(data)
Calculate ==
    /\ pc = "call"
    /\ record' = calculate_performance_metrics(data)
    /\ pc' = "done"
    /\ UNCHANGED data
    /\ UNCHANGED app_vars
    /\ UNCHANGED parser_vars
    /\ UNCHANGED report

NextEngine == Calculate

SpecEngine == InitEngine /\ [][NextEngine]_vars

(***************************************************************************)
(* The text parser alone, as a function of the file content.               *)
(***************************************************************************)
InitParser ==
    /\ content \in Contents
    /\ parsed = NotParsed
    /\ report = NoReport
    /\ data = EmptyData
    /\ record = NoRecord
    /\ pc = "call"
    /\ disk = [f \in Files |-> [raises |-> TRUE, data |-> EmptyData]]
    /\ file_datasets = EmptyDict
    /\ file_metrics = EmptyDict
    /\ current_data = EmptyData
    /\ self_metrics = EmptyDict
    /\ status_label = "ready"

\* parsed := _parse_text_format(content)
ParseText ==
    /\ ~parsed.returned
    /\ parsed' = [returned |-> TRUE, data |-> _parse_text_format(content)]
    /\ UNCHANGED content
    /\ UNCHANGED engine_vars
    /\ UNCHANGED app_vars
    /\ UNCHANGED report

NextParser == ParseText

SpecParser == InitParser /\ [][NextParser]_vars

(***************************************************************************)
(* The engine followed by the report on its record.                        *)
(***************************************************************************)
\* report := generate_analysis_report(record)
Report ==
    /\ pc = "done"
    /\ report' = generate_analysis_report(record)
    /\ pc' = "reported"
    /\ UNCHANGED <<data, record>>
    /\ UNCHANGED app_vars
    /\ UNCHANGED parser_vars

NextReport == Calculate \/ Report

SpecReport == InitEngine /\ [][NextReport]_vars

(***************************************************************************)
(* Key groups of the metrics record.                                       *)
(***************************************************************************)
Keys(m) == DOMAIN m

BasicKeys == {"count", "mean", "median", "min", "max"}

SigmaKeys == {"sigma_2_lower", "sigma_2_upper", "within_2sigma",
              "sigma_3_lower", "sigma_3_upper", "within_3sigma",
              "sigma_6_lower", "sigma_6_upper", "within_6sigma"}

IntervalKeys == {"recommended_lower", "recommended_upper", "within_recommended",
                 "interval_method", "strict_lower", "strict_upper",
                 "within_strict", "strict_method"}

AllPercentileKeys == {PKey(p) : p \in {1, 5, 10, 25, 50, 75, 90, 95, 99}}

StatusKeys == {"insufficient_data", "data_status", "sigma_status", "interval_status"}

Returned == pc = "done"

\* C1: the stages run are fixed by the sample count alone: std, variance and
\* the percentiles are in the record iff n >= 10, the sigma keys iff n >= 30,
\* the interval keys iff n >= 100; for n in [10,29] std, variance, p5, p50
\* and p95 are present and no sigma key is.
C1_StagesByCount ==
    Returned =>
        LET n == Size(data)
            K == Keys(record)
        IN  /\ IF n >= 10
               THEN {"std", "variance", "p5", "p50", "p95"} \subseteq K
               ELSE K \cap ({"std", "variance"} \cup AllPercentileKeys) = {}
            /\ IF n >= 30 THEN SigmaKeys \subseteq K ELSE K \cap SigmaKeys = {}
            /\ IF n >= 100 THEN IntervalKeys \subseteq K ELSE K \cap IntervalKeys = {}

C1_Witness ==
    /\ Returned
    /\ Size(data) = 29
    /\ {"std", "variance", "p5", "p50", "p95"} \subseteq Keys(record)
    /\ Keys(record) \cap SigmaKeys = {}

\* C2: on an empty sample set the engine returns exactly
\* {count: 0, insufficient_data: true}.
C2_EmptyRecord ==
    (Returned /\ Size(data) = 0) =>
        /\ Keys(record) = {"count", "insufficient_data"}
        /\ record["count"] = 0
        /\ record["insufficient_data"] = TRUE

C2_Witness == Returned /\ data = EmptyData /\ record["count"] = 0

\* C3: for 1 <= n <= 9 the record's keys are exactly count, mean, median,
\* min, max, insufficient_data, data_status; insufficient_data is true and
\* data_status is the severe label for n <= 4, the low label for 5 <= n <= 9.
C3_ShortCircuit ==
    (Returned /\ Size(data) \in 1..9) =>
        /\ Keys(record) = BasicKeys \cup {"insufficient_data", "data_status"}
        /\ record["insufficient_data"] = TRUE
        /\ record["data_status"] =
               IF Size(data) <= 4 THEN StatusSevere ELSE StatusLow
        /\ record["count"] = Size(data)

C3_Witness ==
    /\ Returned
    /\ Size(data) = 5
    /\ record["data_status"] = StatusLow

\* C4 as stated: for every count >= 1 the record contains data_quality, the
\* label of the Quality Classifier for that count.
C4_QualityAlways ==
    (Returned /\ Size(data) >= 1) =>
        /\ "data_quality" \in Keys(record)
        /\ record["data_quality"] = _assess_data_quality(Size(data)).data_quality

\* C4 amended: for every count >= 10 the record contains data_quality, the
\* label of the Quality Classifier for that count; for 1 <= count <= 9 the
\* engine returns before the classifier and the record has no data_quality.
C4_QualityFromTen ==
    Returned =>
        /\ Size(data) >= 10 =>
              /\ "data_quality" \in Keys(record)
              /\ record["data_quality"] = _assess_data_quality(Size(data)).data_quality
        /\ Size(data) < 10 => "data_quality" \notin Keys(record)

C4_Witness ==
    /\ Returned
    /\ Size(data) = 9
    /\ "data_status" \in Keys(record)
    /\ "data_quality" \notin Keys(record)

\* k more samples of value v appended to the sample set d
Grown(d, v, k) == Extend(d, [w \in Values |-> IF w = v THEN k ELSE 0])

\* larger sample sets: d with one more sample of any value, or with any
\* number of further samples of the smallest value
Larger(d) == {Grown(d, v, 1) : v \in Values}
                 \cup {Grown(d, 0, k) : k \in Multiplicities \ {0}}

\* C5 as stated: no key of the record for a sample set disappears from the
\* record of a larger sample set, the status keys included.
C5_AllKeysMonotonic ==
    Returned =>
        \A more \in Larger(data) :
            Keys(record) \subseteq Keys(calculate_performance_metrics(more))

\* C5 amended: every key other than the four status keys that is in the
\* record for a sample set is in the record of every larger sample set; a
\* status key is present only below its gate: insufficient_data for n < 10,
\* data_status for 1 <= n <= 9, sigma_status for 10 <= n <= 29 and
\* interval_status for 10 <= n <= 99.
C5_MetricKeysMonotonic ==
    Returned =>
        LET n == Size(data)
            K == Keys(record)
        IN  /\ \A more \in Larger(data) :
                  (K \ StatusKeys) \subseteq Keys(calculate_performance_metrics(more))
            /\ "insufficient_data" \in K <=> n < 10
            /\ "data_status" \in K <=> n \in 1..9
            /\ "sigma_status" \in K <=> n \in 10..29
            /\ "interval_status" \in K <=> n \in 10..99

C5_Witness ==
    /\ Returned
    /\ Size(data) = 29
    /\ "sigma_status" \in Keys(record)
    /\ LET more == Keys(calculate_performance_metrics(Grown(data, 0, 1)))
       IN  /\ "sigma_status" \notin more
           /\ (Keys(record) \ StatusKeys) \subseteq more
           /\ SigmaKeys \subseteq more

\* C6: in every record with count >= 30, for k in {2, 3, 6},
\* sigma_k_lower = mean - k * std and sigma_k_upper = mean + k * std.
C6_SigmaBounds ==
    (Returned /\ Size(data) >= 30) =>
        /\ record["sigma_2_lower"] = record["mean"] - 2 * record["std"]
        /\ record["sigma_2_upper"] = record["mean"] + 2 * record["std"]
        /\ record["sigma_3_lower"] = record["mean"] - 3 * record["std"]
        /\ record["sigma_3_upper"] = record["mean"] + 3 * record["std"]
        /\ record["sigma_6_lower"] = record["mean"] - 6 * record["std"]
        /\ record["sigma_6_upper"] = record["mean"] + 6 * record["std"]

\* C7: for n >= 100 both intervals lie inside the observed range.
C7_IntervalsClamped ==
    (Returned /\ Size(data) >= 100) =>
        /\ NpMin(data) <= record["recommended_lower"]
        /\ record["recommended_upper"] <= NpMax(data)
        /\ NpMin(data) <= record["strict_lower"]
        /\ record["strict_upper"] <= NpMax(data)

\* the 6-sigma range reaches below and above the data and was cut at both ends
C7_Witness ==
    /\ Returned
    /\ Size(data) >= 100
    /\ record["strict_method"] = Method6Sigma
    /\ record["sigma_6_lower"] < NpMin(data)
    /\ record["sigma_6_upper"] > NpMax(data)
    /\ record["strict_lower"] = NpMin(data)
    /\ record["strict_upper"] = NpMax(data)

\* C8: for n >= 100, if within_3sigma > 99 the recommended interval is the
\* 2-sigma range (cut to the observed range) with the 2-Sigma label, and
\* otherwise, within_3sigma = 99 included, it is [p5, p95] with the
\* percentile label.
C8_RecommendedChoice ==
    (Returned /\ Size(data) >= 100) =>
        IF PctGT(record["within_3sigma"], Pct99)
        THEN /\ record["interval_method"] = Method2Sigma
             /\ record["recommended_lower"] =
                    Max2(record["mean"] - 2 * record["std"], NpMin(data))
             /\ record["recommended_upper"] =
                    Min2(record["mean"] + 2 * record["std"], NpMax(data))
        ELSE /\ record["interval_method"] = MethodPercentile
             /\ record["recommended_lower"] = NpPercentile(data, 5)
             /\ record["recommended_upper"] = NpPercentile(data, 95)

\* within_3sigma is exactly 99 and the percentile branch was taken
C8_Witness ==
    /\ Returned
    /\ Size(data) >= 100
    /\ record["within_3sigma"] = Pct99
    /\ record["interval_method"] = MethodPercentile
    /\ record["recommended_upper"] = record["p95"]

\* C9: for n >= 100, if within_6sigma > 99.9 the strict interval is the
\* 6-sigma range [mean - 6 std, mean + 6 std] (cut to the observed range)
\* with the 6-Sigma label, and otherwise, within_6sigma = 99.9 included, it
\* is [p1, p99] with the strict-percentile label, whichever branch the
\* recommended interval took.
C9_StrictChoice ==
    (Returned /\ Size(data) >= 100) =>
        IF PctGT(record["within_6sigma"], Pct99_9)
        THEN /\ record["strict_method"] = Method6Sigma
             /\ record["strict_lower"] =
                    Max2(record["mean"] - 6 * record["std"], NpMin(data))
             /\ record["strict_upper"] =
                    Min2(record["mean"] + 6 * record["std"], NpMax(data))
        ELSE /\ record["strict_method"] = MethodStrictPct
             /\ record["strict_lower"] = NpPercentile(data, 1)
             /\ record["strict_upper"] = NpPercentile(data, 99)

\* within_6sigma is exactly 99.9: the strict interval is [p1, p99] while the
\* recommended interval took the sigma branch
C9_Witness ==
    /\ Returned
    /\ Size(data) >= 100
    /\ record["within_6sigma"] = Pct99_9
    /\ record["strict_method"] = MethodStrictPct
    /\ record["strict_upper"] = record["p99"]
    /\ record["interval_method"] = Method2Sigma

\* the files of a selection
Selected(filenames) == {filenames[i] : i \in DOMAIN filenames}

\* the selected files that can be read and hold samples
Loadable(filenames) ==
    {f \in Selected(filenames) : ~disk[f].raises /\ Size(disk[f].data) > 0}

\* C10: when load_file is given several files, one of which raises, the
\* failing dataset is excluded and the engine is still run for every
\* remaining dataset and for their pooled concatenation.
C10_PartialFailureIsolated ==
    [][\A filenames \in Selections :
          (/\ LoadFile(filenames)
           /\ \E f \in Selected(filenames) : disk[f].raises
           /\ Loadable(filenames) # {})
          => LET remaining == [f \in Loadable(filenames) |-> disk[f].data]
             IN  /\ file_datasets' = remaining
                 /\ file_metrics' = [f \in Loadable(filenames) |->
                                        calculate_performance_metrics(disk[f].data)]
                 /\ current_data' = Pooled(remaining)
                 /\ self_metrics' = calculate_performance_metrics(Pooled(remaining))
      ]_vars

RECURSIVE CountOver(_, _)
\* the sum of the counts of the records of the files in S
CountOver(fmetrics, S) ==
    IF S = {} THEN 0
    ELSE LET f == CHOOSE g \in S : TRUE
         IN  fmetrics[f]["count"] + CountOver(fmetrics, S \ {f})

RECURSIVE WeightedOver(_, _)
\* the sum of count * mean over the records of the files in S
WeightedOver(fmetrics, S) ==
    IF S = {} THEN 0
    ELSE LET f == CHOOSE g \in S : TRUE
         IN  fmetrics[f]["count"] * fmetrics[f]["mean"] + WeightedOver(fmetrics, S \ {f})

RECURSIVE MeanOver(_, _)
\* the sum of the means of the records of the files in S
MeanOver(fmetrics, S) ==
    IF S = {} THEN 0
    ELSE LET f == CHOOSE g \in S : TRUE
         IN  fmetrics[f]["mean"] + MeanOver(fmetrics, S \ {f})

\* a step in which analyze_data ran over a non-empty file_datasets, from the
\* button or at the end of a load_file in which no file raised
Analysed ==
    \/ analyze_data /\ DOMAIN file_datasets # {}
    \/ \E filenames \in Selections :
          /\ LoadFile(filenames)
          /\ ~LoadLoop(disk, filenames, EmptyDict, EmptyData).raised
          /\ DOMAIN file_datasets' # {}

\* two fixed-point numbers equal up to the rounding of one unit
Close(a, b) == a - b \in -1..1

\* C11: after analyze_data over a non-empty mapping of datasets the pooled
\* record is the engine's result on the concatenation of all sample sets: its
\* count is the sum of the per-dataset counts and its mean is the
\* count-weighted mean of the per-dataset means.
C11_PooledRecord ==
    [][Analysed =>
          LET S == DOMAIN file_datasets'
              n == CountOver(file_metrics', S)
          IN  /\ DOMAIN file_metrics' = S
              /\ current_data' = Pooled(file_datasets')
              /\ self_metrics' = calculate_performance_metrics(current_data')
              /\ self_metrics'["count"] = n
              /\ Close(self_metrics'["mean"], WeightedOver(file_metrics', S) \div n)
      ]_vars

\* two datasets of different size are pooled, and the pooled mean is the
\* weighted mean, away from the mean of the two per-file means
C11_Witness ==
    LET S == DOMAIN file_datasets
    IN  /\ Cardinality(S) = 2
        /\ DOMAIN file_metrics = S
        /\ \E f, g \in S : file_metrics[f]["count"] < file_metrics[g]["count"]
        /\ self_metrics = calculate_performance_metrics(Pooled(file_datasets))
        /\ self_metrics["count"] = CountOver(file_metrics, S)
        /\ Close(self_metrics["mean"],
                 WeightedOver(file_metrics, S) \div CountOver(file_metrics, S))
        /\ ~Close(self_metrics["mean"], MeanOver(file_metrics, S) \div 2)

\* the five labels of the Quality Classifier
QualityLabels == {QualitySevere, QualityLow, QualityFair, QualityGood, QualityExcellent}

\* C12: for every count n >= 0 the Quality Classifier returns exactly one of
\* five labels by bands closed at their lower end: n < 30 severely
\* insufficient, 30..99 insufficient, 100..499 fair, 500..999 good,
\* n >= 1000 excellent.
C12_QualityBands ==
    Returned =>
        LET n == Size(data)
            q == _assess_data_quality(n)
        IN  /\ DOMAIN q = {"data_quality"}
            /\ Cardinality(QualityLabels) = 5
            /\ q.data_quality \in QualityLabels
            /\ q.data_quality = QualitySevere <=> n < 30
            /\ q.data_quality = QualityLow <=> n \in 30..99
            /\ q.data_quality = QualityFair <=> n \in 100..499
            /\ q.data_quality = QualityGood <=> n \in 500..999
            /\ q.data_quality = QualityExcellent <=> n >= 1000
            /\ n >= 10 => record["data_quality"] = q.data_quality

\* a count on the lower end of a band: 30 samples are insufficient, not
\* severely insufficient
C12_Witness ==
    /\ Returned
    /\ Size(data) = 30
    /\ record["data_quality"] = QualityLow

\* the keys of a record of the form f'p{p}'
PercentileKeys(m) == Keys(m) \cap {PKey(p) : p \in 0..100}

\* C13: the percentile keys in the record are exactly the set selected by
\* count: p1, p5, p10, p25, p50, p75, p90, p95, p99 when count >= 50; p5,
\* p25, p50, p75, p95 when 20 <= count < 50; p5, p50, p95 when
\* 10 <= count < 20; none when count < 10.
C13_PercentileKeys ==
    Returned =>
        LET n == Size(data)
        IN  PercentileKeys(record) =
                IF n >= 50
                THEN {"p1", "p5", "p10", "p25", "p50", "p75", "p90", "p95", "p99"}
                ELSE IF n >= 20 THEN {"p5", "p25", "p50", "p75", "p95"}
                ELSE IF n >= 10 THEN {"p5", "p50", "p95"}
                ELSE {}

\* 20 samples are in the middle tier
C13_Witness ==
    /\ Returned
    /\ Size(data) = 20
    /\ PercentileKeys(record) = {"p5", "p25", "p50", "p75", "p95"}

RECURSIVE Occurrences(_, _)
\* the number of samples of d with a value in V
Occurrences(d, V) ==
    IF V = {} THEN 0
    ELSE LET v == CHOOSE w \in V : TRUE
         IN  d[v] + Occurrences(d, V \ {v})

\* the percentage of the samples x of d with lower <= x <= upper
Inside(d, lower, upper) ==
    Frac(Occurrences(d, {v \in Values : lower <= Fix(v) /\ Fix(v) <= upper}) * 100,
         Size(d))

\* C14: for every sample set with n >= 30 containment is monotonic in k:
\* within_2sigma <= within_3sigma <= within_6sigma, each being the percentage
\* of the samples x with lower_k <= x <= upper_k, bounds included, for the
\* range mean -/+ k * std and for the range stored in the record.
C14_ContainmentMonotonic ==
    (Returned /\ Size(data) >= 30) =>
        LET mean == record["mean"]
            std  == record["std"]
        IN  /\ PctLE(record["within_2sigma"], record["within_3sigma"])
            /\ PctLE(record["within_3sigma"], record["within_6sigma"])
            /\ record["within_2sigma"] = Inside(data, mean - 2 * std, mean + 2 * std)
            /\ record["within_3sigma"] = Inside(data, mean - 3 * std, mean + 3 * std)
            /\ record["within_6sigma"] = Inside(data, mean - 6 * std, mean + 6 * std)
            /\ record["within_2sigma"] =
                   Inside(data, record["sigma_2_lower"], record["sigma_2_upper"])
            /\ record["within_3sigma"] =
                   Inside(data, record["sigma_3_lower"], record["sigma_3_upper"])
            /\ record["within_6sigma"] =
                   Inside(data, record["sigma_6_lower"], record["sigma_6_upper"])

\* the three containments differ
C14_Witness ==
    /\ Returned
    /\ Size(data) >= 30
    /\ PctGT(record["within_3sigma"], record["within_2sigma"])
    /\ PctGT(record["within_6sigma"], record["within_3sigma"])

\* all samples of d equal the constant c
Constant(d, c) == d[c] = Size(d)

\* C15: if all n >= 30 samples equal a constant c (std = 0), then in the
\* returned record, for every k in {2, 3, 6}, sigma_k_lower = sigma_k_upper
\* = c and within_k_sigma = 100; also for n >= 100, after the interval
\* recommender has updated the record.
C15_Degeneracy ==
    Returned =>
        \A c \in Values :
            (Size(data) >= 30 /\ Constant(data, c)) =>
                /\ record["std"] = 0
                /\ record["sigma_2_lower"] = Fix(c) /\ record["sigma_2_upper"] = Fix(c)
                /\ record["sigma_3_lower"] = Fix(c) /\ record["sigma_3_upper"] = Fix(c)
                /\ record["sigma_6_lower"] = Fix(c) /\ record["sigma_6_upper"] = Fix(c)
                /\ record["within_2sigma"] = Pct100
                /\ record["within_3sigma"] = Pct100
                /\ record["within_6sigma"] = Pct100

\* 499 samples of the largest value, through the interval recommender
C15_Witness ==
    /\ Returned
    /\ Size(data) >= 100
    /\ Constant(data, MaxValue)
    /\ "recommended_lower" \in Keys(record)
    /\ record["sigma_6_upper"] = Fix(MaxValue)
    /\ record["within_6sigma"] = Pct100

\* the width of the k-sigma range stored in a record
Width(m, lower, upper) == m[upper] - m[lower]

\* C16: in every record with count >= 30, count >= 100 included, the stored
\* sigma ranges are nested: sigma_6_lower <= sigma_3_lower <= sigma_2_lower
\* <= sigma_2_upper <= sigma_3_upper <= sigma_6_upper, hence
\* width(sigma_2) <= width(sigma_3) <= width(sigma_6).
C16_SigmaNested ==
    (Returned /\ Size(data) >= 30) =>
        /\ record["sigma_6_lower"] <= record["sigma_3_lower"]
        /\ record["sigma_3_lower"] <= record["sigma_2_lower"]
        /\ record["sigma_2_lower"] <= record["sigma_2_upper"]
        /\ record["sigma_2_upper"] <= record["sigma_3_upper"]
        /\ record["sigma_3_upper"] <= record["sigma_6_upper"]
        /\ Width(record, "sigma_2_lower", "sigma_2_upper")
               <= Width(record, "sigma_3_lower", "sigma_3_upper")
        /\ Width(record, "sigma_3_lower", "sigma_3_upper")
               <= Width(record, "sigma_6_lower", "sigma_6_upper")

\* a record through the interval recommender: the 3-sigma range was cut at
\* the maximum, the 2-sigma range lies below it, the 6-sigma range is uncut
C16_Witness ==
    /\ Returned
    /\ Size(data) >= 100
    /\ record["sigma_3_upper"] = NpMax(data)
    /\ record["mean"] + 3 * record["std"] > NpMax(data)
    /\ record["sigma_2_upper"] < record["sigma_3_upper"]
    /\ record["sigma_6_upper"] > NpMax(data)
    /\ record["sigma_6_lower"] < record["sigma_3_lower"]

\* the recommended interval of a record is strictly wider than its strict one
RecommendedWider(m) ==
    Width(m, "recommended_lower", "recommended_upper")
        > Width(m, "strict_lower", "strict_upper")

\* C17: the two intervals are not nested in general: there is a sample set
\* with n >= 100 whose recommended interval is strictly wider than its
\* strict interval; it occurs when the recommended interval takes the
\* 2-sigma branch (within_3sigma > 99) while the strict interval takes the
\* [p1, p99] branch (within_6sigma <= 99.9), and in no other combination of
\* branches.
C17_NotNested ==
    (Returned /\ Size(data) >= 100 /\ RecommendedWider(record)) =>
        /\ PctGT(record["within_3sigma"], Pct99)
        /\ record["interval_method"] = Method2Sigma
        /\ record["recommended_lower"] =
               Max2(record["mean"] - 2 * record["std"], NpMin(data))
        /\ record["recommended_upper"] =
               Min2(record["mean"] + 2 * record["std"], NpMax(data))
        /\ PctLE(record["within_6sigma"], Pct99_9)
        /\ record["strict_method"] = MethodStrictPct
        /\ record["strict_lower"] = NpPercentile(data, 1)
        /\ record["strict_upper"] = NpPercentile(data, 99)

\* such a sample set: the recommended interval is the 2-sigma range, the
\* strict interval [p1, p99] is narrower
C17_Witness ==
    /\ Returned
    /\ Size(data) >= 100
    /\ RecommendedWider(record)
    /\ record["interval_method"] = Method2Sigma
    /\ record["strict_method"] = MethodStrictPct

\* C18: for every sample set with n >= 100, within_recommended and
\* within_strict are the percentages, over the full sample set, of the
\* samples x with lower <= x <= upper for the final (cut to the observed
\* range) recommended and strict intervals.
C18_EmpiricalContainment ==
    (Returned /\ Size(data) >= 100) =>
        /\ record["within_recommended"] =
               Inside(data, record["recommended_lower"], record["recommended_upper"])
        /\ record["within_strict"] =
               Inside(data, record["strict_lower"], record["strict_upper"])

\* both intervals are percentile intervals and hold other shares of the
\* samples than the 2-sigma and the 6-sigma range
C18_Witness ==
    /\ Returned
    /\ Size(data) >= 100
    /\ record["interval_method"] = MethodPercentile
    /\ record["strict_method"] = MethodStrictPct
    /\ record["within_recommended"] # record["within_2sigma"]
    /\ record["within_strict"] # record["within_6sigma"]
    /\ record["within_recommended"] =
           Inside(data, record["p5"], record["p95"])

\* C19: the sample sequence the text parser hands to the engine holds only
\* finite numbers: for every file content _parse_text_format yields no NaN
\* and no infinity; 'nan', 'inf' and an overflowing literal are dropped like
\* any other part that is no number.
C19_ParsedFinite ==
    parsed.returned =>
        \A i \in DOMAIN parsed.data : parsed.data[i].kind = "finite"

RECURSIVE SumCounts(_, _)
\* the sum of the counts of the labels in S
SumCounts(counts, S) ==
    IF S = {} THEN 0
    ELSE LET q == CHOOSE r \in S : TRUE
         IN  counts[q] + SumCounts(counts, S \ {q})

\* the comparison report is generated for several files
Compared == Cardinality(DOMAIN file_metrics) > 1

\* C20 as stated: the quality histogram of the comparison report counts
\* every analysed dataset exactly once under its quality label: the counts
\* sum to the number of datasets and every label is one of the five quality
\* tiers, datasets with fewer than 10 samples included.
C20_FiveTierHistogram ==
    Compared =>
        LET counts == quality_counts(file_metrics)
        IN  /\ SumCounts(counts, DOMAIN counts) = Cardinality(DOMAIN file_metrics)
            /\ DOMAIN counts \subseteq QualityLabels

\* C20 amended: the counts sum to the number of datasets; a dataset with at
\* least 10 samples is counted under the label of the Quality Classifier
\* for its count, a dataset with fewer than 10 samples, whose record has no
\* data_quality, under the sixth label unknown.
C20_HistogramWithUnknown ==
    Compared =>
        LET counts == quality_counts(file_metrics)
            Label(f) == IF file_metrics[f]["count"] >= 10
                        THEN _assess_data_quality(file_metrics[f]["count"]).data_quality
                        ELSE QualityUnknown
        IN  /\ SumCounts(counts, DOMAIN counts) = Cardinality(DOMAIN file_metrics)
            /\ DOMAIN counts \subseteq QualityLabels \cup {QualityUnknown}
            /\ QualityUnknown \notin QualityLabels
            /\ \A q \in QualityLabels \cup {QualityUnknown} :
                   Cardinality({f \in DOMAIN file_metrics : Label(f) = q}) =
                       Get(counts, q, 0)

\* two datasets, one of fewer than 10 samples counted under unknown
C20_Witness ==
    /\ Compared
    /\ \E f, g \in DOMAIN file_metrics :
          /\ file_metrics[f]["count"] < 10
          /\ file_metrics[g]["count"] >= 30
    /\ quality_counts(file_metrics) = (QualityUnknown :> 1) @@ (QualityLow :> 1)

\* generate_analysis_report has returned or raised
Reported == pc = "reported"

\* the five advisories
Advisories == {AdviceStop, AdviceBasicOnly, AdviceSigma, AdviceComplete, AdviceReliable}

\* the last section of a report
LastSection(r) == r.result[Len(r.result)]

\* C21: the advisory generator maps every count to exactly one of five
\* fixed advisories: the stop-analysis warning for count < 10, the
\* basic-analysis-only notice for 10 <= count < 30, the
\* sigma-analysis-available notice for 30 <= count < 100, and the two
\* complete-analysis confirmations for 100 <= count < 500 and count >= 500.
C21_AdvisoryBands ==
    Reported =>
        LET n == Size(data)
            a == _generate_data_collection_advice(n)
        IN  /\ Cardinality(Advisories) = 5
            /\ a \in Advisories
            /\ a = AdviceStop <=> n < 10
            /\ a = AdviceBasicOnly <=> n \in 10..29
            /\ a = AdviceSigma <=> n \in 30..99
            /\ a = AdviceComplete <=> n \in 100..499
            /\ a = AdviceReliable <=> n >= 500
            /\ n >= 10 => ~report.raises /\ LastSection(report) = a

\* 10 samples: the report ends with the basic-analysis-only notice
C21_Witness ==
    /\ Reported
    /\ Size(data) = 10
    /\ ~report.raises
    /\ LastSection(report) = AdviceBasicOnly

\* C22: after any sequence of load_file (each file yielding samples,
\* yielding no samples, or raising), analyze_data and clear_data the maps
\* stay parallel: file_metrics has exactly the identifiers of file_datasets,
\* each entry is the engine's record for that identifier's sample set, and
\* current_data is the concatenation of the sample sets in file_datasets.
C22_MapsParallel ==
    /\ DOMAIN file_metrics = DOMAIN file_datasets
    /\ \A f \in DOMAIN file_datasets \cap DOMAIN file_metrics :
          file_metrics[f] = calculate_performance_metrics(file_datasets[f])
    /\ current_data = Pooled(file_datasets)

\* C23: analyze_data runs to completion, the status reaching the
\* analysis-complete state, for every non-empty set of loaded datasets of
\* any sizes: every key the chart renderers read from a per-file record is
\* in the engine's record, a single file of 1 to 9 samples included.
C23_AnalysisCompletes ==
    [][Analysed =>
          /\ ~PlotRaises(file_datasets', file_metrics')
          /\ status_label' = "complete"
      ]_vars

\* C24: generate_analysis_report returns a report without a missing-key
\* failure for every record calculate_performance_metrics can return, the
\* record of the empty sample set included: every key it reads without a
\* guard is in the record.
C24_ReportNeverRaises ==
    Reported =>
        /\ ReportReads(record) \subseteq Keys(record)
        /\ ~report.raises
        /\ report.result # <<>>

\* C25: for every sample set with n >= 100 both intervals are well-formed
\* after selection and clamping: recommended_lower <= recommended_upper and
\* strict_lower <= strict_upper, whichever branch was taken, std = 0
\* included.
C25_IntervalsWellFormed ==
    (Returned /\ Size(data) >= 100) =>
        /\ record["recommended_lower"] <= record["recommended_upper"]
        /\ record["strict_lower"] <= record["strict_upper"]

\* a percentile recommended interval and a 6-sigma strict interval, cut at
\* both ends of the data, neither collapsed to a point
C25_Witness ==
    /\ Returned
    /\ Size(data) >= 100
    /\ record["std"] > 0
    /\ record["interval_method"] = MethodPercentile
    /\ record["strict_method"] = Method6Sigma
    /\ record["recommended_lower"] < record["recommended_upper"]
    /\ record["strict_lower"] = NpMin(data)
    /\ record["strict_upper"] = NpMax(data)
    /\ record["strict_lower"] < record["strict_upper"]

\* the positions of a report that hold an advisory
AdvisoryPositions(r) == {i \in DOMAIN r.result : r.result[i] \in Advisories}

\* C26: for every engine record with 1 <= count <= 9 the report returns
\* right after the basic statistics and holds no advisory, so the
\* stop-analysis advisory is in no report built from an engine record; for
\* every record with count >= 10 the report ends with exactly one advisory.
C26_AdvisoryInReport ==
    Reported =>
        LET n == Size(data)
        IN  /\ n \in 1..9 =>
                  /\ ~report.raises
                  /\ report.result =
                         <<SectionHeader, SectionSevereWarning, SectionBasicReference>>
                  /\ AdvisoryPositions(report) = {}
            /\ \A i \in DOMAIN report.result : report.result[i] # AdviceStop
            /\ n >= 10 =>
                  /\ ~report.raises
                  /\ AdvisoryPositions(report) = {Len(report.result)}
                  /\ LastSection(report) = _generate_data_collection_advice(n)

\* the report on 9 samples ends with the basic statistics
C26_Witness ==
    /\ Reported
    /\ Size(data) = 9
    /\ record["insufficient_data"] = TRUE
    /\ LastSection(report) = SectionBasicReference
    /\ AdvisoryPositions(report) = {}

====
